---- MODULE Spec2Model ----
EXTENDS FiniteSets, Integers, Naturals, Sequences, TLC

\* Model of convert_us_to_jis.py.  Text is a sequence of characters.  A
\* character is a one-character TLA+ string, except for the characters a
\* TLA+ string literal cannot hold (the backtick and most of the non-ASCII
\* whitespace), each of which is the single atom "U+XXXX" naming its code
\* point.  Non-ASCII characters are written the same way, so the model
\* reads the same under any locale.  Either way one element of a text
\* sequence is one character.

\* ---------------------------------------------------------------------------
\* Characters

StrChars(str) == [k \in 1..Len(str) |-> SubSeq(str, k, k)]

CharSet(str) == {SubSeq(str, k, k) : k \in 1..Len(str)}

Backtick == "U+0060"

\* Python's str whitespace: both \s of a str pattern and str.split() use it
Whitespace ==
  {" ", "\t", "\n", "\r", "\f",
   "U+000B", "U+001C", "U+001D", "U+001E", "U+001F", "U+0085", "U+00A0",
   "U+1680", "U+2000", "U+2001", "U+2002", "U+2003", "U+2004", "U+2005",
   "U+2006", "U+2007", "U+2008", "U+2009", "U+200A", "U+2028", "U+2029",
   "U+202F", "U+205F", "U+3000"}

\* [^,;>\n] excludes these
StopChars == {",", ";", ">", "\n"}

\* [a-zA-Z_] and [a-zA-Z0-9_]
IdentStart == CharSet("abcdefghijklmnopqrstuvwxyzABCDEFGHIJKLMNOPQRSTUVWXYZ_")
IdentChars == IdentStart \cup CharSet("0123456789")

IsSpace(c) == c \in Whitespace
IsStop(c) == c \in StopChars

RECURSIVE Concat(_)
Concat(s) == IF s = <<>> THEN "" ELSE Head(s) \o Concat(Tail(s))

\* "".join(pieces)
RECURSIVE Flatten(_)
Flatten(ss) == IF ss = <<>> THEN <<>> ELSE Head(ss) \o Flatten(Tail(ss))

\* ---------------------------------------------------------------------------
\* Static data

\* fields: JP define name, US key names, define value, symbol comment (text)
CONVERSION_TABLE ==
  << <<"JP_DQUOTE", <<"DOUBLE_QUOTES", "DOUBLE_QUOTE", "DQT">>, "AT", StrChars("\"")>>,
     <<"JP_AMPERSAND", <<"AMPERSAND", "AMPS", "AMP">>, "CARET", StrChars("&")>>,
     <<"JP_QUOTE", <<"SINGLE_QUOTE", "SQT", "APOS">>, "AMPERSAND", StrChars("'")>>,
     <<"JP_EQUAL", <<"EQUAL", "EQL">>, "UNDERSCORE", StrChars("=")>>,
     <<"JP_CARET", <<"CARET">>, "EQUAL", StrChars("^")>>,
     <<"JP_YEN", <<"YEN", "BACKSLASH">>, "0x89", <<"U+00C2", "U+00A5">>>>,
     <<"JP_PLUS", <<"PLUS">>, "COLON", StrChars("+")>>,
     <<"JP_TILDE", <<"TILDE">>, "PLUS", StrChars("~")>>,
     <<"JP_PIPE", <<"PIPE">>, "LS(0x89)", StrChars("|")>>,
     <<"JP_AT", <<"AT">>, "LEFT_BRACKET", StrChars("@")>>,
     <<"JP_COLON", <<"COLON">>, "SINGLE_QUOTE", StrChars(":")>>,
     <<"JP_ASTERISK", <<"ASTERISK", "ASTRK", "STAR">>, "DOUBLE_QUOTES", StrChars("*")>>,
     <<"JP_BACKQUOTE", <<"BACKQUOTE", "GRAVE">>, "LEFT_BRACE", <<Backtick>>>>,
     <<"JP_UNDERSCORE", <<"UNDERSCORE", "UNDER">>, "LS(0x87)", StrChars("_")>>,
     <<"JP_LBRACKET", <<"LEFT_BRACKET", "LBKT", "LBRC">>, "RIGHT_BRACKET", StrChars("[")>>,
     <<"JP_RBRACKET", <<"RIGHT_BRACKET", "RBKT", "RBRC">>, "BACKSLASH", StrChars("]")>>,
     <<"JP_LPAREN", <<"LEFT_PARENTHESIS", "LPAR">>, "ASTERISK", StrChars("(")>>,
     <<"JP_RPAREN", <<"RIGHT_PARENTHESIS", "RPAR">>, "LEFT_PARENTHESIS", StrChars(")")>>,
     <<"JP_LBRACE", <<"LEFT_BRACE", "LBRC">>, "RIGHT_BRACE", StrChars("{")>>,
     <<"JP_RBRACE", <<"RIGHT_BRACE", "RBRC">>, "PIPE", StrChars("}")>>,
     <<"JP_KANA", <<"KANA">>, "LANGUAGE_1", StrChars("kana")>>,
     <<"JP_EISU", <<"EISU">>, "LANGUAGE_2", StrChars("eisu")>>,
     <<"JP_HANZEN", <<"HANZEN", "HANKAKU_ZENKAKU">>, "GRAVE", StrChars("hankaku/zenkaku")>> >>

\* 0-based index, -1 means last argument
BINDING_KEY_ARG_RULES ==
  [b \in {"kp", "mt", "lt", "lt_to_layer_0"} |-> IF b = "kp" THEN 0 ELSE -1]

\* ---------------------------------------------------------------------------
\* create_conversion_map: plain assignment into a dict, later entries win

MapPut(m, k, v) == (k :> v) @@ m

RECURSIVE PutAliases(_, _, _, _)
PutAliases(m, names, j, jp) ==
  IF j > Len(names) THEN m
  ELSE PutAliases(MapPut(m, names[j], jp), names, j + 1, jp)

RECURSIVE BuildMap(_, _)
BuildMap(m, i) ==
  IF i > Len(CONVERSION_TABLE) THEN m
  ELSE BuildMap(PutAliases(m, CONVERSION_TABLE[i][2], 1, CONVERSION_TABLE[i][1]), i + 1)

\* variant that maps each alias to the define value instead of the JP name
RECURSIVE BuildMapValues(_, _)
BuildMapValues(m, i) ==
  IF i > Len(CONVERSION_TABLE) THEN m
  ELSE BuildMapValues(PutAliases(m, CONVERSION_TABLE[i][2], 1, CONVERSION_TABLE[i][3]), i + 1)

create_conversion_map_values == BuildMapValues(<<>>, 1)

\* variant in which the first entry listing an alias wins
MapPutFirst(m, k, v) == IF k \in DOMAIN m THEN m ELSE MapPut(m, k, v)

RECURSIVE PutAliasesFirst(_, _, _, _)
PutAliasesFirst(m, names, j, jp) ==
  IF j > Len(names) THEN m
  ELSE PutAliasesFirst(MapPutFirst(m, names[j], jp), names, j + 1, jp)

RECURSIVE BuildMapFirst(_, _)
BuildMapFirst(m, i) ==
  IF i > Len(CONVERSION_TABLE) THEN m
  ELSE BuildMapFirst(PutAliasesFirst(m, CONVERSION_TABLE[i][2], 1, CONVERSION_TABLE[i][1]), i + 1)

create_conversion_map_first == BuildMapFirst(<<>>, 1)

create_conversion_map == BuildMap(<<>>, 1)

ConversionMap == create_conversion_map

\* ---------------------------------------------------------------------------
\* convert_keymap_line: re.sub(r'&([a-zA-Z_][a-zA-Z0-9_]*)\s+([^,;>\n]+)', repl, line)

\* first index >= j whose character is not an identifier character
RECURSIVE IdEnd(_, _)
IdEnd(s, j) == IF j <= Len(s) /\ s[j] \in IdentChars THEN IdEnd(s, j + 1) ELSE j

\* first index >= j whose character is not whitespace
RECURSIVE WsEnd(_, _)
WsEnd(s, j) == IF j <= Len(s) /\ IsSpace(s[j]) THEN WsEnd(s, j + 1) ELSE j

\* first index >= j whose character is a stop character
RECURSIVE StopAt(_, _)
StopAt(s, j) == IF j <= Len(s) /\ ~IsStop(s[j]) THEN StopAt(s, j + 1) ELSE j

\* The match of the pattern starting at index i, or a record with ok = FALSE.
\* The identifier group is the maximal identifier run (a shorter one would be
\* followed by an identifier character, not by \s).  \s+ is greedy and
\* backtracks: the argument group starts at the largest p in j+1..k whose
\* character is not a stop character, and runs to the next stop character.
MatchAt(s, i) ==
  IF ~(i < Len(s) /\ s[i] = "&" /\ s[i + 1] \in IdentStart)
  THEN [ok |-> FALSE]
  ELSE
    LET j == IdEnd(s, i + 1)
        k == WsEnd(s, j)
        P == {p \in (j + 1)..k : p <= Len(s) /\ ~IsStop(s[p])}
    IN IF P = {} THEN [ok |-> FALSE]
       ELSE LET p == CHOOSE q \in P : \A r \in P : r <= q
                e == StopAt(s, p)
            IN [ok |-> TRUE, start |-> i, end |-> e, group0 |-> SubSeq(s, i, e - 1),
                kw |-> SubSeq(s, i + 1, j - 1), args |-> SubSeq(s, p, e - 1)]

\* str.split(): whitespace-separated tokens, each a sequence of characters
RECURSIVE SplitFrom(_, _, _)
SplitFrom(s, j, cur) ==
  IF j > Len(s) THEN (IF cur = <<>> THEN <<>> ELSE <<cur>>)
  ELSE IF IsSpace(s[j])
       THEN (IF cur = <<>> THEN SplitFrom(s, j + 1, <<>>)
             ELSE <<cur>> \o SplitFrom(s, j + 1, <<>>))
       ELSE SplitFrom(s, j + 1, Append(cur, s[j]))

Split(s) == SplitFrom(s, 1, <<>>)

\* " ".join(tokens)
RECURSIVE JoinSp(_)
JoinSp(ts) ==
  IF ts = <<>> THEN <<>>
  ELSE IF Len(ts) = 1 THEN Head(ts)
  ELSE Head(ts) \o <<" ">> \o JoinSp(Tail(ts))

\* index of the designated argument, as resolved in repl
KeyArgIndex(binding, n) ==
  LET key_arg_index == BINDING_KEY_ARG_RULES[binding]
  IN IF key_arg_index >= 0 THEN key_arg_index ELSE n + key_arg_index

\* position of the last "(" of a token, 0 if none
LastOpen(tok) ==
  LET P == {t \in 1..Len(tok) : tok[t] = "("}
  IN IF P = {} THEN 0 ELSE CHOOSE t \in P : \A u \in P : u <= t

\* variant that also converts the key code wrapped by a modifier
repl_descend(m) ==
  LET binding == Concat(m.kw)
      args == Split(m.args)
  IN IF binding \notin DOMAIN BINDING_KEY_ARG_RULES THEN m.group0
     ELSE IF args = <<>> THEN m.group0
     ELSE LET idx == KeyArgIndex(binding, Len(args))
          IN IF idx < 0 \/ idx >= Len(args) THEN m.group0
             ELSE LET tok == args[idx + 1]
                      key_name == Concat(tok)
                      o == LastOpen(tok)
                      CP == {t \in (o + 1)..Len(tok) : tok[t] = ")"}
                      c == IF CP = {} THEN 0 ELSE CHOOSE t \in CP : \A u \in CP : t <= u
                      inner == IF o > 0 /\ c > 0 THEN Concat(SubSeq(tok, o + 1, c - 1)) ELSE ""
                      newtok == IF key_name \in DOMAIN ConversionMap
                                THEN StrChars(ConversionMap[key_name])
                                ELSE IF inner \in DOMAIN ConversionMap
                                THEN SubSeq(tok, 1, o) \o StrChars(ConversionMap[inner])
                                     \o SubSeq(tok, c, Len(tok))
                                ELSE tok
                      new == [t \in 1..Len(args) |-> IF t = idx + 1 THEN newtok ELSE args[t]]
                  IN <<"&">> \o m.kw \o <<" ">> \o JoinSp(new)

\* variant that applies the kp rule to every binding keyword
repl_unchecked(m) ==
  LET binding == Concat(m.kw)
      args == Split(m.args)
  IN IF args = <<>> THEN m.group0
     ELSE LET idx == IF binding \in DOMAIN BINDING_KEY_ARG_RULES
                     THEN KeyArgIndex(binding, Len(args)) ELSE 0
          IN IF idx < 0 \/ idx >= Len(args) THEN m.group0
             ELSE LET key_name == Concat(args[idx + 1])
                      new == [t \in 1..Len(args) |->
                               IF t = idx + 1 /\ key_name \in DOMAIN ConversionMap
                               THEN StrChars(ConversionMap[key_name]) ELSE args[t]]
                  IN <<"&">> \o m.kw \o <<" ">> \o JoinSp(new)

\* variant that returns the match unchanged when the key is not in the map
repl_restricted(m) ==
  LET binding == Concat(m.kw)
      args == Split(m.args)
  IN IF binding \notin DOMAIN BINDING_KEY_ARG_RULES THEN m.group0
     ELSE IF args = <<>> THEN m.group0
     ELSE LET idx == KeyArgIndex(binding, Len(args))
          IN IF idx < 0 \/ idx >= Len(args) THEN m.group0
             ELSE LET key_name == Concat(args[idx + 1])
                  IN IF key_name \notin DOMAIN ConversionMap THEN m.group0
                     ELSE LET new == [t \in 1..Len(args) |->
                                       IF t = idx + 1 THEN StrChars(ConversionMap[key_name])
                                       ELSE args[t]]
                          IN <<"&">> \o m.kw \o <<" ">> \o JoinSp(new)

\* repl(m): text that replaces the match m
repl(m) ==
  LET binding == Concat(m.kw)
      args == Split(m.args)
  IN IF binding \notin DOMAIN BINDING_KEY_ARG_RULES THEN m.group0
     ELSE IF args = <<>> THEN m.group0
     ELSE LET idx == KeyArgIndex(binding, Len(args))
          IN IF idx < 0 \/ idx >= Len(args) THEN m.group0
             ELSE LET key_name == Concat(args[idx + 1])
                      new == [t \in 1..Len(args) |->
                               IF t = idx + 1 /\ key_name \in DOMAIN ConversionMap
                               THEN StrChars(ConversionMap[key_name]) ELSE args[t]]
                  IN <<"&">> \o m.kw \o <<" ">> \o JoinSp(new)

\* re.sub: scan left to right, continue after each match
RECURSIVE SubFrom(_, _)
SubFrom(s, i) ==
  IF i > Len(s) THEN <<>>
  ELSE LET m == MatchAt(s, i)
       IN IF m.ok THEN repl(m) \o SubFrom(s, m.end)
          ELSE <<s[i]>> \o SubFrom(s, i + 1)

convert_keymap_line(line) == SubFrom(line, 1)

\* ---------------------------------------------------------------------------
\* generate_define_header

RECURSIVE Spaces(_)
Spaces(n) == IF n <= 0 THEN "" ELSE " " \o Spaces(n - 1)

Max(a, b) == IF a >= b THEN a ELSE b

\* f"{us_value:<20}"
LJust20(v) == v \o Spaces(20 - Len(v))

DefineLine(i) ==
  LET jp_name == CONVERSION_TABLE[i][1]
      us_value == CONVERSION_TABLE[i][3]
      comment == CONVERSION_TABLE[i][4]
      padding == Spaces(Max(1, 20 - Len(jp_name)))
  IN StrChars("#define " \o jp_name \o padding \o LJust20(us_value) \o "// ") \o comment

Banner == << StrChars("// ========================================"),
             StrChars("// JIS Keyboard Layout Definitions"),
             StrChars("// ========================================") >>

\* "\n".join(lines)
RECURSIVE JoinNL(_)
JoinNL(ls) ==
  IF ls = <<>> THEN <<>>
  ELSE IF Len(ls) = 1 THEN Head(ls)
  ELSE Head(ls) \o <<"\n">> \o JoinNL(Tail(ls))

DefineLines == [i \in 1..Len(CONVERSION_TABLE) |-> DefineLine(i)]

\* variant without the trailing lines.append("")
generate_define_header_noblank == JoinNL(Banner \o DefineLines)

generate_define_header == JoinNL(Banner \o DefineLines \o <<<<>>>>)


\* ---------------------------------------------------------------------------
\* convert_file

\* open(..., "r") with universal newlines: "\r\n" and a lone "\r" read as "\n"
CRLFAt(c) == {j \in 1..Len(c) : c[j] = "\r" /\ j < Len(c) /\ c[j + 1] = "\n"}

TranslateNewlines(c) ==
  LET D == CRLFAt(c)
      slot(d) == d - Cardinality({x \in D : x < d})
      src(k) == k + Cardinality({d \in D : slot(d) <= k})
  IN IF \A j \in 1..Len(c) : c[j] # "\r" THEN c
     ELSE [k \in 1..(Len(c) - Cardinality(D)) |->
             IF c[src(k)] = "\r" THEN "\n" ELSE c[src(k)]]

\* first index >= j holding "\n", or the last index
RECURSIVE LineEnd(_, _)
LineEnd(t, j) == IF j < Len(t) /\ t[j] # "\n" THEN LineEnd(t, j + 1) ELSE j

\* f.readlines(): lines split after each "\n", each keeping its "\n"
RECURSIVE ReadLinesFrom(_, _)
ReadLinesFrom(t, j) ==
  IF j > Len(t) THEN <<>>
  ELSE LET e == LineEnd(t, j)
       IN <<SubSeq(t, j, e)>> \o ReadLinesFrom(t, e + 1)

ReadLines(c) == ReadLinesFrom(TranslateNewlines(c), 1)

\* variant that counts a line only when its whitespace-separated tokens changed
LineChanged_subst(orig, conv) ==
  [t \in 1..Len(Split(orig)) |-> Concat(Split(orig)[t])]
  # [t \in 1..Len(Split(conv)) |-> Concat(Split(conv)[t])]

\* if original_line != converted_line
LineChanged(orig, conv) == orig # conv

MaxLines == 2
FileLines ==
  { StrChars("&kp  A\n"), StrChars("&kp SQT\r\n"), StrChars("&foo BAR\r"),
    StrChars("&kp A &kp SQT\n"), StrChars("&mt LSHFT LS(SQT) \n"),
    StrChars("&kp LBRC") }

\* initial file contents: up to MaxLines lines, a line without a line end last
Files ==
  { Flatten(ls) : ls \in { f \in UNION {[1..n -> FileLines] : n \in 1..MaxLines} :
                             \A k \in 1..Len(f) - 1 : f[k][Len(f[k])] \in {"\n", "\r"} } }

MaxRuns == 2

VARIABLES line, out, done
lvars == <<line, out, done>>

VARIABLES file, run, fpc, flines, fidx, converted, count, contents, counts, bodies
fvars == <<file, run, fpc, flines, fidx, converted, count, contents, counts, bodies>>

FInit ==
  /\ file \in Files
  /\ run = 1
  /\ fpc = "read"
  /\ flines = <<>> /\ fidx = 1 /\ converted = <<>> /\ count = 0
  /\ contents = <<>> /\ counts = <<>> /\ bodies = <<>>
  /\ line = <<>> /\ out = <<>> /\ done = FALSE

\* lines = f.readlines(); conversion_map = create_conversion_map()
ReadFile ==
  /\ fpc = "read"
  /\ flines' = ReadLines(file)
  /\ fidx' = 1 /\ converted' = <<>> /\ count' = 0
  /\ fpc' = "convert"
  /\ UNCHANGED <<file, run, contents, counts, bodies>>

\* one iteration of: for line in lines
ConvertStep ==
  /\ fpc = "convert"
  /\ fidx <= Len(flines)
  /\ LET converted_line == convert_keymap_line(flines[fidx])
     IN /\ converted' = Append(converted, converted_line)
        /\ count' = IF LineChanged(flines[fidx], converted_line) THEN count + 1 ELSE count
  /\ fidx' = fidx + 1
  /\ UNCHANGED <<file, run, fpc, flines, contents, counts, bodies>>

\* output_content = header + "\n" + "".join(converted_lines); f.write(...)
WriteFile ==
  /\ fpc = "convert"
  /\ fidx > Len(flines)
  /\ file' = generate_define_header \o <<"\n">> \o Flatten(converted)
  /\ contents' = Append(contents, file')
  /\ counts' = Append(counts, count)
  /\ bodies' = Append(bodies, converted)
  /\ fpc' = IF run < MaxRuns THEN "read" ELSE "done"
  /\ run' = IF run < MaxRuns THEN run + 1 ELSE run
  /\ UNCHANGED <<flines, fidx, converted, count>>

FNext == (ReadFile \/ ConvertStep \/ WriteFile) /\ UNCHANGED lvars

FSpec == FInit /\ [][FNext]_<<lvars, fvars>>

\* ---------------------------------------------------------------------------
\* Line-level specification: one call of convert_keymap_line on an input line

MaxSeg == 4
Segments ==
  { StrChars(" &kp"), StrChars("&mt"), StrChars("&lt"),
    StrChars("&lt_to_layer_0"), StrChars("&foo"), StrChars(" A"), StrChars(" SQT"),
    StrChars(" LC(LA(SQT))"), StrChars(" LBRC"), StrChars("\f"), StrChars(",") }

Lines == { Flatten(ss) : ss \in UNION {[1..n -> Segments] : n \in 1..MaxSeg} }

LInit ==
  /\ line \in Lines /\ out = <<>> /\ done = FALSE
  /\ file = <<>> /\ run = 1 /\ fpc = "idle"
  /\ flines = <<>> /\ fidx = 1 /\ converted = <<>> /\ count = 0
  /\ contents = <<>> /\ counts = <<>> /\ bodies = <<>>

ConvertLine ==
  /\ ~done
  /\ out' = convert_keymap_line(line)
  /\ done' = TRUE
  /\ UNCHANGED line
  /\ UNCHANGED fvars

LNext == ConvertLine

LSpec == LInit /\ [][LNext]_<<lvars, fvars>>


\* ---------------------------------------------------------------------------
\* Vocabulary of the line-level properties

AmpPositions(s) == {i \in 1..Len(s) : s[i] = "&"}

\* identifier following the marker at i
KeywordAt(s, i) == Concat(SubSeq(s, i + 1, IdEnd(s, i + 1) - 1))

\* designated argument, 1-based: kp -> first, mt/lt/lt_to_layer_0 -> last
Designated(kw, n) == IF kw = "kp" THEN 1 ELSE n

TokVals(ts) == [t \in 1..Len(ts) |-> Concat(ts[t])]

\* a binding invocation starts at i: a marker, an identifier, whitespace
IsInvocationAt(s, i) ==
  /\ i < Len(s) /\ s[i] = "&" /\ s[i + 1] \in IdentStart
  /\ IdEnd(s, i + 1) <= Len(s) /\ IsSpace(s[IdEnd(s, i + 1)])

\* end of the argument list of an invocation written on its own: the next
\* invocation or stop character
RECURSIVE NextBoundary(_, _)
NextBoundary(s, j) ==
  IF j <= Len(s) /\ ~IsInvocationAt(s, j) /\ ~IsStop(s[j])
  THEN NextBoundary(s, j + 1) ELSE j

Invocations(s) == {i \in AmpPositions(s) : IsInvocationAt(s, i)}

\* argument token values of the invocation at i
InvArgs(s, i) ==
  LET j == IdEnd(s, i + 1) IN TokVals(Split(SubSeq(s, j, NextBoundary(s, j) - 1)))

RecognizedInvocations(s) ==
  {i \in Invocations(s) :
     KeywordAt(s, i) \in DOMAIN BINDING_KEY_ARG_RULES /\ InvArgs(s, i) # <<>>}

\* the argument list expected of an invocation: the designated token replaced
\* by its target name when it is a source alias
ConvertedArgs(kw, args) ==
  [t \in 1..Len(args) |->
     IF t = Designated(kw, Len(args)) /\ args[t] \in DOMAIN ConversionMap
     THEN ConversionMap[args[t]] ELSE args[t]]

\* C1: on a line holding exactly one invocation of a recognized binding (with
\* a non-empty argument list), the output again holds exactly one such
\* invocation, with the same keyword, whose designated argument is replaced by
\* its target name when it is a source alias and whose other arguments keep
\* their values and positions.
C1_DesignatedArgConverted ==
  (done /\ Cardinality(RecognizedInvocations(line)) = 1) =>
    LET i == CHOOSE x \in RecognizedInvocations(line) : TRUE
    IN /\ Cardinality(RecognizedInvocations(out)) = 1
       /\ \A o \in RecognizedInvocations(out) :
            /\ KeywordAt(out, o) = KeywordAt(line, i)
            /\ InvArgs(out, o) = ConvertedArgs(KeywordAt(line, i), InvArgs(line, i))

\* designated argument values of all recognized invocations of a line
InvocationDesignated(s) ==
  {InvArgs(s, i)[Designated(KeywordAt(s, i), Len(InvArgs(s, i)))] :
     i \in RecognizedInvocations(s)}

\* C2: when a line holds several bindings separated only by whitespace, each
\* recognized binding's designated argument that is a source alias is
\* converted: no recognized invocation of the output still has a source alias
\* as its designated argument.
C2_EachBindingConverted ==
  (/\ done
   /\ \A x \in 1..Len(line) : ~IsStop(line[x])
   /\ \A x \in AmpPositions(line) : x = 1 \/ IsSpace(line[x - 1])) =>
    \A v \in InvocationDesignated(out) : v \notin DOMAIN ConversionMap

\* C3: a line whose every marker introduces a keyword outside
\* BINDING_KEY_ARG_RULES is returned unchanged.
C3_UnrecognizedUnchanged ==
  (done /\ \A i \in AmpPositions(line) :
             KeywordAt(line, i) \notin DOMAIN BINDING_KEY_ARG_RULES)
    => out = line

C3_Witness ==
  /\ done
  /\ \A i \in AmpPositions(line) : KeywordAt(line, i) \notin DOMAIN BINDING_KEY_ARG_RULES
  /\ \E i \in AmpPositions(line) :
       MatchAt(line, i).ok /\ KeywordAt(line, i) = "foo"
       /\ \E a \in DOMAIN ConversionMap : StrChars(a) \in {Split(MatchAt(line, i).args)[t] : t \in 1..Len(Split(MatchAt(line, i).args))}

\* pieces of a line: maximal runs of characters that are neither whitespace
\* nor one of , ; >
PieceSeps == Whitespace \cup {",", ";", ">"}

RECURSIVE PiecesFrom(_, _, _)
PiecesFrom(s, j, cur) ==
  IF j > Len(s) THEN (IF cur = <<>> THEN <<>> ELSE <<Concat(cur)>>)
  ELSE IF s[j] \in PieceSeps
       THEN (IF cur = <<>> THEN PiecesFrom(s, j + 1, <<>>)
             ELSE <<Concat(cur)>> \o PiecesFrom(s, j + 1, <<>>))
       ELSE PiecesFrom(s, j + 1, Append(cur, s[j]))

Pieces(s) == PiecesFrom(s, 1, <<>>)

\* a modifier-wrapper expression: a piece holding a parenthesis
IsWrapper(w) == \E t \in 1..Len(w) : SubSeq(w, t, t) = "("

Occurrences(w, ps) == Cardinality({t \in 1..Len(ps) : ps[t] = w})

\* C4: no modifier-wrapper expression is rewritten: every wrapper expression
\* occurs in the output exactly as often as in the input, so no source alias
\* inside a wrapper is converted.
C4_WrapperNotConverted ==
  done =>
    LET PL == Pieces(line)
        PO == Pieces(out)
    IN \A w \in {PL[t] : t \in 1..Len(PL)} \cup {PO[t] : t \in 1..Len(PO)} :
         IsWrapper(w) => Occurrences(w, PL) = Occurrences(w, PO)

C4_Witness ==
  /\ done
  /\ \E i \in RecognizedInvocations(line) :
       IsWrapper(InvArgs(line, i)[Designated(KeywordAt(line, i), Len(InvArgs(line, i)))])
  /\ out # line

\* matches of the pattern, in the order re.sub finds them
RECURSIVE ScanFrom(_, _)
ScanFrom(s, i) ==
  IF i > Len(s) THEN <<>>
  ELSE LET m == MatchAt(s, i)
       IN IF m.ok THEN <<m>> \o ScanFrom(s, m.end) ELSE ScanFrom(s, i + 1)

Scan(s) == ScanFrom(s, 1)

\* a match with a recognized keyword and at least one argument token
Reassembled(m) ==
  Concat(m.kw) \in DOMAIN BINDING_KEY_ARG_RULES /\ Split(m.args) # <<>>

MatchDesignated(m) ==
  TokVals(Split(m.args))[Designated(Concat(m.kw), Len(Split(m.args)))]

RECURSIVE JoinStr(_)
JoinStr(vs) ==
  IF vs = <<>> THEN ""
  ELSE IF Len(vs) = 1 THEN Head(vs)
  ELSE Head(vs) \o " " \o JoinStr(Tail(vs))

\* target name of an alias: the entry listing it last
LastTarget(v) ==
  LET E == {x \in 1..Len(CONVERSION_TABLE) :
              \E a \in 1..Len(CONVERSION_TABLE[x][2]) : CONVERSION_TABLE[x][2][a] = v}
  IN IF E = {} THEN v
     ELSE CONVERSION_TABLE[CHOOSE x \in E : \A y \in E : y <= x][1]

\* the text expected for a line: outside the matches the line is kept; a
\* match with an unrecognized keyword or no argument token is kept; a
\* recognized match becomes "&" + keyword + " " + its argument tokens joined
\* by single spaces, the designated one renamed when mode = "rename"
RECURSIVE ExpectedFrom(_, _, _)
ExpectedFrom(s, i, mode) ==
  IF i > Len(s) THEN ""
  ELSE LET m == MatchAt(s, i)
       IN IF ~m.ok THEN s[i] \o ExpectedFrom(s, i + 1, mode)
          ELSE IF ~Reassembled(m) THEN Concat(m.group0) \o ExpectedFrom(s, m.end, mode)
          ELSE LET args == TokVals(Split(m.args))
                   d == Designated(Concat(m.kw), Len(args))
                   vals == [t \in 1..Len(args) |->
                              IF t = d /\ mode = "rename" THEN LastTarget(args[t]) ELSE args[t]]
               IN "&" \o Concat(m.kw) \o " " \o JoinStr(vals) \o ExpectedFrom(s, m.end, mode)

\* C5: when no recognized binding of the line has a source alias as its
\* designated argument, each matched region becomes "&" + keyword + " " + the
\* argument tokens joined by single spaces, token values unchanged.
C5_Reassembled ==
  done =>
    LET S == Scan(line)
    IN (\A k \in 1..Len(S) : Reassembled(S[k]) => MatchDesignated(S[k]) \notin DOMAIN ConversionMap)
       => Concat(out) = ExpectedFrom(line, 1, "keep")

C5_Witness ==
  /\ done
  /\ \E k \in 1..Len(Scan(line)) : Reassembled(Scan(line)[k])
  /\ \A k \in 1..Len(Scan(line)) :
       Reassembled(Scan(line)[k]) => MatchDesignated(Scan(line)[k]) \notin DOMAIN ConversionMap
  /\ out # line

SumAliasLens ==
  LET RECURSIVE S(_)
      S(i) == IF i > Len(CONVERSION_TABLE) THEN 0
              ELSE Len(CONVERSION_TABLE[i][2]) + S(i + 1)
  IN S(1)

\* C8: no alias is listed under two different target names, so the alias index
\* used by a conversion has one entry per (entry, alias) pair.
C8_UniqueAliases ==
  done =>
    /\ \A i, j \in 1..Len(CONVERSION_TABLE) :
         (CONVERSION_TABLE[i][1] # CONVERSION_TABLE[j][1]) =>
           \A a \in 1..Len(CONVERSION_TABLE[i][2]), b \in 1..Len(CONVERSION_TABLE[j][2]) :
             CONVERSION_TABLE[i][2][a] # CONVERSION_TABLE[j][2][b]
    /\ Cardinality(DOMAIN ConversionMap) = SumAliasLens

\* C9: an alias listed by several entries maps to the last of them
\* (LBRC -> JP_LBRACE, RBRC -> JP_RBRACE), and a binding whose designated
\* argument is LBRC gets that target name in the designated position.
\* the conversion map sends every alias to the last entry listing it
MapIsLastWrite ==
  /\ \A a \in DOMAIN ConversionMap : ConversionMap[a] = LastTarget(a)
  /\ ConversionMap["LBRC"] = "JP_LBRACE"
  /\ ConversionMap["RBRC"] = "JP_RBRACE"

C9_LastWriteWins ==
  /\ MapIsLastWrite
  /\ done =>
       LET S == Scan(line)
       IN (\E k \in 1..Len(S) : Reassembled(S[k]) /\ MatchDesignated(S[k]) = "LBRC")
          => Concat(out) = ExpectedFrom(line, 1, "rename")

C9_Witness ==
  /\ done
  /\ \E k \in 1..Len(Scan(line)) :
       Reassembled(Scan(line)[k]) /\ MatchDesignated(Scan(line)[k]) = "LBRC"

\* C6: converting the converted file again changes no line: the second run
\* counts no changed line, its body is the first run's output line by line,
\* and its output is a second header block followed by the first run's
\* output; no target name is a source alias.
C6_SecondRunNoOp ==
  /\ \A i \in 1..Len(CONVERSION_TABLE) : CONVERSION_TABLE[i][1] \notin DOMAIN ConversionMap
  /\ Len(contents) = 2 =>
       /\ counts[2] = 0
       /\ bodies[2] = ReadLines(contents[1])
       /\ contents[2] = generate_define_header \o <<"\n">> \o contents[1]

C6_Witness ==
  /\ Len(contents) = 2 /\ counts[1] > 0
  /\ \E k \in 1..Len(bodies[1]) : bodies[1][k] = StrChars("&kp JP_QUOTE\n")

\* "#define " and the JP name of each table entry
DefinePrefixes ==
  [i \in 1..Len(CONVERSION_TABLE) |-> StrChars("#define " \o CONVERSION_TABLE[i][1] \o " ")]

\* C7: the written header is 3 banner lines, one #define line per table entry
\* in table order, and one blank line before the first body line.
C7_HeaderShape ==
  Len(contents) >= 1 =>
    LET L == ReadLines(contents[1])
        H == Len(CONVERSION_TABLE)
        P(i) == DefinePrefixes[i]
    IN /\ Len(L) = 3 + H + 1 + Len(bodies[1])
       /\ \A b \in 1..3 : L[b] = Banner[b] \o <<"\n">>
       /\ \A i \in 1..H : /\ Len(L[3 + i]) > Len(P(i))
                          /\ SubSeq(L[3 + i], 1, Len(P(i))) = P(i)
                          /\ L[3 + i][Len(L[3 + i])] = "\n"
       /\ L[3 + H + 1] = <<"\n">>
       /\ \A k \in 1..Len(bodies[1]) : L[3 + H + 1 + k] = bodies[1][k]

C7_Witness == Len(contents) >= 1 /\ Len(bodies[1]) >= 2

\* C10: conversion_count equals the number of lines processed so far whose
\* converted text differs from the input text.
C10_CountsChangedLines ==
  count = Cardinality({k \in 1..Len(converted) : converted[k] # flines[k]})

C10_Witness ==
  \E k \in 1..Len(converted) :
    /\ converted[k] # flines[k]
    /\ TokVals(Split(converted[k])) = TokVals(Split(flines[k]))
    /\ count > 0

====
